---- MODULE Spec2Model ----
(***************************************************************************)
(* Model of EnginePruneController                                          *)
(* (crates/consensus/beacon/src/engine/prune.rs).                          *)
(*                                                                         *)
(* The controller runs on the thread that drives the engine; the pruner    *)
(* task runs on a worker provided by the TaskSpawner.  The two share only  *)
(* the oneshot channel created in try_spawn_pruner.  A call of poll is     *)
(* modelled statement by statement (pc), so worker steps interleave with   *)
(* it wherever the two threads can really interleave.                      *)
(***************************************************************************)
EXTENDS Naturals, Sequences, FiniteSets

\* ------------------------------------------------------------------ bounds
\* Number of pruner runs the caller asks for before it stops calling poll.
MaxRuns == 3
\* Cap of the loop-iteration counter of one poll call (the counter saturates).
MaxIters == 3

\* ------------------------------------------------------------------ values
None == "None"
\* The Pruner instances a controller can be constructed with.
Pruners == {"p1", "p2"}
\* Result<(), PrunerError> of one run.
PrunerResults == {"Ok", "PrunerError"}

\* PrunerWithResult: (Pruner, Result<(), PrunerError>); NoValue is the empty slot.
PrunerWithResult(pruner, result) == [pruner |-> pruner, result |-> result]
NoValue == [pruner |-> None, result |-> None]

\* PrunerState
Idle(pruner) == [tag |-> "Idle", pruner |-> pruner, rx |-> 0]
Running(rx) == [tag |-> "Running", pruner |-> None, rx |-> rx]

\* EnginePruneEvent, wrapped in Poll; NoRet while a call is executing or none was made.
Started == [kind |-> "Started", result |-> None]
Finished(result) == [kind |-> "Finished", result |-> result]
TaskDropped == [kind |-> "TaskDropped", result |-> None]
Pending == [kind |-> "Pending", result |-> None]
NoRet == [kind |-> "NoRet", result |-> None]

VARIABLES
    pruner_state,   \* EnginePruneController.pruner_state
    chans,          \* the oneshot channels created so far, by creation order
    tasks,          \* the units of work handed to pruner_task_spawner, same order
    pc,             \* position of the controller thread inside poll
    ret,            \* value returned by the last completed poll
    iters,          \* iterations of the loop of poll made by the current call
    entry,          \* what the current/last call found when it was entered
    notified,       \* the waker handed to the channel has been woken
    observed,       \* result of the last is_pruner_idle / is_pruner_active query
    dropped_seen,   \* some poll has returned TaskDropped
    events,         \* the last event returned by poll and how many of each kind
    pruner0         \* the Pruner the controller was constructed with

vars == <<pruner_state, chans, tasks, pc, ret, iters, entry, notified, observed,
          dropped_seen, events, pruner0>>

\* ------------------------------------------------------- tokio oneshot channel
\* oneshot::channel(): empty, both ends alive, no waker registered.
oneshot_channel ==
    [value |-> NoValue, complete |-> FALSE, tx |-> TRUE,
     rx |-> TRUE, rx_inner |-> TRUE, rx_waker |-> FALSE]

\* Sender::send(v): stores the value unless the receiver is gone; consumes the sender.
Sender_send(ch, v) ==
    IF ch.rx THEN [ch EXCEPT !.value = v, !.complete = TRUE, !.tx = FALSE]
             ELSE [ch EXCEPT !.tx = FALSE]

\* Sender dropped without send: the channel completes with no value.
Sender_drop(ch) == [ch EXCEPT !.complete = TRUE, !.tx = FALSE]

\* Does completing the channel wake the receiver's task?
Sender_wakes(ch) == ch.rx /\ ch.rx_waker

\* Receiver::poll: outcome of one non-blocking check.
Receiver_poll(ch) ==
    IF ~ch.rx_inner THEN [kind |-> "Panic", value |-> NoValue]
    ELSE IF ch.complete
         THEN IF ch.value # NoValue THEN [kind |-> "Ok", value |-> ch.value]
                                    ELSE [kind |-> "Err", value |-> NoValue]
         ELSE [kind |-> "Pending", value |-> NoValue]

\* Receiver::poll: effect on the channel (value taken on Ok, waker kept on Pending).
Receiver_after_poll_Fused(ch) ==
    IF ~ch.rx_inner THEN ch
    ELSE IF ch.complete
         THEN [ch EXCEPT !.value = NoValue, !.rx_inner = FALSE]
         ELSE [ch EXCEPT !.rx_waker = TRUE]

Receiver_after_poll_NoWaker(ch) ==
    IF ~ch.rx_inner THEN ch
    ELSE IF ch.complete
         THEN IF ch.value # NoValue
              THEN [ch EXCEPT !.value = NoValue, !.rx_inner = FALSE]
              ELSE ch
         ELSE ch

Receiver_after_poll(ch) ==
    IF ~ch.rx_inner THEN ch
    ELSE IF ch.complete
         THEN IF ch.value # NoValue
              THEN [ch EXCEPT !.value = NoValue, !.rx_inner = FALSE]
              ELSE ch
         ELSE [ch EXCEPT !.rx_waker = TRUE]

\* Receiver dropped (the Running variant is overwritten).
Receiver_drop(ch) == [ch EXCEPT !.rx = FALSE, !.rx_inner = FALSE]

\* ------------------------------------------------------------- PrunerState
is_idle(st) == st.tag = "Idle"

is_pruner_idle == is_idle(pruner_state)

is_pruner_active_NotNegated == is_pruner_idle

is_pruner_active == ~is_pruner_idle

\* ---------------------------------------------------- EnginePruneController
\* new: the state a controller is constructed with.
new_Empty(pruner) == Idle(None)

new(pruner) == Idle(pruner)

\* try_spawn_pruner: the Idle arm is taken and pruner.take()? yields a pruner.
can_spawn_Always(st) == TRUE

can_spawn(st) == is_idle(st) /\ st.pruner # None

\* try_spawn_pruner, line 76: the state once the task is submitted.
try_spawn_pruner_state_Kept(st, rx) == st

try_spawn_pruner_state(st, rx) == Running(rx)

\* poll_pruner, lines 49-58: the state after the match on the channel's answer.
poll_pruner_state_StillRunning(st, res) == st

poll_pruner_state_EmptySlot(st, res) ==
    IF res.kind = "Ok" THEN Idle(None) ELSE st

poll_pruner_state_IdleOnErr(st, res) ==
    IF res.kind = "Ok" THEN Idle(res.value.pruner) ELSE Idle(None)

poll_pruner_state(st, res) ==
    IF res.kind = "Ok" THEN Idle(res.value.pruner) ELSE st

\* poll_pruner, lines 49-58: the event of the match on the channel's answer.
poll_pruner_event_ResultLost(res) ==
    IF res.kind = "Ok" THEN Finished("Ok") ELSE TaskDropped

poll_pruner_event(res) ==
    IF res.kind = "Ok" THEN Finished(res.value.result) ELSE TaskDropped

\* poll, lines 87-89: return the event of try_spawn_pruner, if any, else go on
\* to the loop.
poll_after_spawn_FallThrough(event) == "poll_pruner"

poll_after_spawn(event) == IF event # NoRet THEN "ready" ELSE "poll_pruner"

\* poll, lines 96-99: the pending completion check cannot make progress.
cannot_progress_Inverted(st) == is_idle(st)

cannot_progress(st) == ~is_idle(st)

\* ------------------------------------------------------------------- tasks
\* The closure of try_spawn_pruner: owns the pruner and the sender.
NewTask(pruner) == [pc |-> "run", pruner |-> pruner, result |-> None]

\* Units of work that were submitted and have neither posted nor terminated.
InFlight == {i \in 1..Len(tasks) : tasks[i].pc \in {"run", "send"}}

\* The caller's record of the events poll has returned to it.
NoEvents == [last |-> NoRet, started |-> 0, finished |-> 0]

RecordEvent(ev) ==
    [last |-> ev,
     started |-> events.started + (IF ev.kind = "Started" THEN 1 ELSE 0),
     finished |-> events.finished + (IF ev.kind = "Finished" THEN 1 ELSE 0)]

\* What a call finds on entry.
Snapshot ==
    [idle |-> is_pruner_idle,
     ntasks |-> Len(tasks),
     prev |-> ret,
     after_drop |-> dropped_seen,
     posted |-> IF is_pruner_idle THEN NoValue ELSE chans[pruner_state.rx].value,
     closed |-> IF is_pruner_idle THEN FALSE
                ELSE chans[pruner_state.rx].complete
                     /\ chans[pruner_state.rx].value = NoValue]

NoSnapshot ==
    [idle |-> TRUE, ntasks |-> 0, prev |-> NoRet, after_drop |-> FALSE,
     posted |-> NoValue, closed |-> FALSE]

\* -------------------------------------------------------------------- Init
\* EnginePruneController::new
Init ==
    /\ pruner0 \in Pruners
    /\ pruner_state = new(pruner0)
    /\ chans = <<>>
    /\ tasks = <<>>
    /\ pc = "ready"
    /\ ret = NoRet
    /\ iters = 0
    /\ entry = NoSnapshot
    /\ notified = FALSE
    /\ observed = [query |-> None, value |-> FALSE]
    /\ dropped_seen = FALSE
    /\ events = NoEvents

\* ------------------------------------------------------- controller thread
\* The foreground loop enters poll.  It stops asking once MaxRuns runs are over.
Call ==
    /\ pc = "ready"
    /\ ~(is_pruner_idle /\ Len(tasks) >= MaxRuns)
    /\ pc' = "try_spawn_pruner"
    /\ ret' = NoRet
    /\ iters' = 0
    /\ entry' = Snapshot
    /\ notified' = FALSE
    /\ UNCHANGED <<pruner_state, chans, tasks, observed, dropped_seen, events, pruner0>>

\* poll, lines 87-89, with try_spawn_pruner inlined.
try_spawn_pruner ==
    /\ pc = "try_spawn_pruner"
    /\ IF can_spawn(pruner_state)
       THEN /\ chans' = Append(chans, oneshot_channel)
            /\ tasks' = Append(tasks, NewTask(pruner_state.pruner))
            /\ pruner_state' = try_spawn_pruner_state(pruner_state, Len(chans) + 1)
            /\ ret' = Started
            /\ events' = RecordEvent(Started)
            /\ pc' = poll_after_spawn(Started)
       ELSE /\ pc' = poll_after_spawn(NoRet)
            /\ UNCHANGED <<pruner_state, chans, tasks, ret, events>>
    /\ UNCHANGED <<iters, entry, notified, observed, dropped_seen, pruner0>>

\* poll, lines 92-94, with poll_pruner inlined.
poll_pruner ==
    /\ pc = "poll_pruner"
    /\ iters' = IF iters < MaxIters THEN iters + 1 ELSE iters
    /\ IF is_idle(pruner_state)
       THEN /\ pc' = "check"
            /\ UNCHANGED <<pruner_state, chans, ret, dropped_seen, events>>
       ELSE LET rx == pruner_state.rx
                res == Receiver_poll(chans[rx])
                polled == Receiver_after_poll(chans[rx])
            IN  CASE res.kind = "Pending" ->
                       /\ chans' = [chans EXCEPT ![rx] = polled]
                       /\ pc' = "check"
                       /\ UNCHANGED <<pruner_state, ret, dropped_seen, events>>
                  [] res.kind \in {"Ok", "Err"} ->
                       /\ pruner_state' = poll_pruner_state(pruner_state, res)
                       /\ chans' = [chans EXCEPT ![rx] =
                                      IF is_idle(pruner_state')
                                      THEN Receiver_drop(polled) ELSE polled]
                       /\ ret' = poll_pruner_event(res)
                       /\ events' = RecordEvent(ret')
                       /\ dropped_seen' = (dropped_seen \/ ret' = TaskDropped)
                       /\ pc' = "ready"
                  [] res.kind = "Panic" ->
                       /\ pc' = "panicked"
                       /\ UNCHANGED <<pruner_state, chans, ret, dropped_seen, events>>
    /\ UNCHANGED <<tasks, entry, notified, observed, pruner0>>

\* poll, lines 96-99.
check_idle ==
    /\ pc = "check"
    /\ IF cannot_progress(pruner_state)
       THEN /\ ret' = Pending
            /\ pc' = "ready"
       ELSE /\ pc' = "poll_pruner"
            /\ UNCHANGED ret
    /\ UNCHANGED <<pruner_state, chans, tasks, iters, entry, notified, observed,
                   dropped_seen, events, pruner0>>

\* is_pruner_idle / is_pruner_active, called between polls.
Query ==
    /\ pc = "ready"
    /\ \E q \in {"is_pruner_idle", "is_pruner_active"} :
          observed' = [query |-> q,
                       value |-> IF q = "is_pruner_idle" THEN is_pruner_idle
                                                         ELSE is_pruner_active]
    /\ UNCHANGED <<pruner_state, chans, tasks, pc, ret, iters, entry, notified,
                   dropped_seen, events, pruner0>>

\* ----------------------------------------------------------- worker thread
\* Line 72: pruner.run_as_fut().await returns (pruner, result).
WorkerRun(i) ==
    /\ tasks[i].pc = "run"
    /\ \E result \in PrunerResults :
          tasks' = [tasks EXCEPT ![i].pc = "send", ![i].result = result]
    /\ UNCHANGED <<pruner_state, chans, pc, ret, iters, entry, notified, observed,
                   dropped_seen, events, pruner0>>

\* Line 73: let _ = tx.send(result); the closure ends.
WorkerSend_NoSend(i) ==
    /\ tasks[i].pc = "send"
    /\ chans' = [chans EXCEPT ![i] = Sender_drop(@)]
    /\ tasks' = [tasks EXCEPT ![i].pc = "done", ![i].pruner = None, ![i].result = None]
    /\ notified' = (notified \/ Sender_wakes(chans[i]))
    /\ UNCHANGED <<pruner_state, pc, ret, iters, entry, observed, dropped_seen, events, pruner0>>

WorkerSend(i) ==
    /\ tasks[i].pc = "send"
    /\ chans' = [chans EXCEPT
                   ![i] = Sender_send(@, PrunerWithResult(tasks[i].pruner, tasks[i].result))]
    /\ tasks' = [tasks EXCEPT ![i].pc = "done", ![i].pruner = None, ![i].result = None]
    /\ notified' = (notified \/ Sender_wakes(chans[i]))
    /\ UNCHANGED <<pruner_state, pc, ret, iters, entry, observed, dropped_seen, events, pruner0>>

\* The unit of work panics in run_as_fut or is discarded by the spawner: the
\* closure is dropped with the pruner and the sender in it.
WorkerPanic(i) ==
    /\ tasks[i].pc = "run"
    /\ chans' = [chans EXCEPT ![i] = Sender_drop(@)]
    /\ tasks' = [tasks EXCEPT ![i].pc = "panicked", ![i].pruner = None]
    /\ notified' = (notified \/ Sender_wakes(chans[i]))
    /\ UNCHANGED <<pruner_state, pc, ret, iters, entry, observed, dropped_seen, events, pruner0>>

Worker == \E i \in 1..Len(tasks) : WorkerRun(i) \/ WorkerSend(i) \/ WorkerPanic(i)

Controller == try_spawn_pruner \/ poll_pruner \/ check_idle

Next == Call \/ Controller \/ Query \/ Worker

Spec == Init /\ [][Next]_vars

\* The controller thread is scheduled: a call in progress keeps executing.
ControllerFairSpec == Spec /\ WF_vars(Controller)

\* A caller that obeys the Poll contract: after Poll::Pending it calls poll
\* again only once the waker it passed in cx has been woken; after an event
\* (Poll::Ready) it calls again by itself.
CallOnWake ==
    /\ ret = Pending => notified
    /\ Call

WakeNext == CallOnWake \/ Controller \/ Query \/ Worker

WakeFairSpec ==
    Init /\ [][WakeNext]_vars
    /\ WF_vars(Controller) /\ WF_vars(CallOnWake) /\ WF_vars(Worker)

\* Moreover the foreground loop keeps calling poll, and a spawned task is
\* scheduled until it has posted its result or has been dropped.
FairSpec == Spec /\ WF_vars(Controller) /\ WF_vars(Call) /\ WF_vars(Worker)

\* ================================================================== claims
\* A call of poll has returned (and no later call has been entered).
Returned == pc = "ready" /\ ret # NoRet

\* The step of the controller thread that returns from poll.
Returns == pc # "ready" /\ pc' = "ready"

\* C1: at most one background run is in flight at any time, and a poll entered
\* while the state is Running neither returns Started nor submits a task.
C1_AtMostOneRunInFlight ==
    /\ Cardinality(InFlight) <= 1
    /\ ~entry.idle => /\ ret # Started
                      /\ Len(tasks) = entry.ntasks

\* A poll entered while Running has returned pending with its run still in flight.
C1_Witness ==
    Returned /\ ~entry.idle /\ ret = Pending /\ Cardinality(InFlight) = 1

\* C2: while a submitted task has neither posted its result nor terminated,
\* is_pruner_idle() is false and is_pruner_active() is true.
C2_ActiveWhileInFlight ==
    InFlight # {} => ~is_pruner_idle /\ is_pruner_active

\* The caller queried is_pruner_active after a pending tick, the run still in flight.
C2_Witness ==
    /\ Returned /\ ret = Pending /\ InFlight # {}
    /\ observed = [query |-> "is_pruner_active", value |-> TRUE]
    /\ entry.prev = Pending

\* Number of places that hold a Pruner: the Idle slot, the tasks, the channels.
Holders ==
    (IF pruner_state.pruner # None THEN 1 ELSE 0)
    + Cardinality({i \in 1..Len(tasks) : tasks[i].pruner # None})
    + Cardinality({i \in 1..Len(chans) : chans[i].value.pruner # None})

\* C3: the Pruner is in exactly one place (Idle slot, task, channel) or was lost
\* with a task that terminated abnormally, and it is in the Idle slot exactly
\* when the state is Idle.
C3_RunnerSingleOwner ==
    /\ Holders <= 1
    /\ Holders = 0 <=> \E i \in 1..Len(tasks) : tasks[i].pc = "panicked"
    /\ is_pruner_idle <=> pruner_state.pruner # None
    /\ pruner_state.pruner \in {None, pruner0}
    /\ \A i \in 1..Len(tasks) : tasks[i].pruner \in {None, pruner0}
    /\ \A i \in 1..Len(chans) : chans[i].value.pruner \in {None, pruner0}

\* The Pruner of a second run sits in the channel, posted and not yet received.
C3_Witness ==
    /\ Len(chans) >= 2
    /\ chans[Len(chans)].value.pruner = pruner0
    /\ is_pruner_active

\* C4: when the task disappears without posting, the next poll returns
\* TaskDropped and the state stays Running; from then on the controller is
\* active after every step, no poll returns Started and no task is submitted.
C4_TaskDroppedIsPermanent ==
    [][/\ (Returns /\ entry.closed) => (ret' = TaskDropped /\ is_pruner_active')
       /\ dropped_seen => /\ is_pruner_active'
                          /\ ret' # Started
                          /\ tasks' = tasks]_vars

\* A poll entered after an earlier TaskDropped has returned.
C4_Witness ==
    Returned /\ entry.after_drop /\ entry.closed /\ is_pruner_active /\ Len(tasks) >= 2

C6_FinishedOkThenRestart ==
    [][Returns =>
          /\ (entry.posted # NoValue /\ entry.posted.result = "Ok") =>
                /\ ret' = Finished("Ok")
                /\ pruner_state' = Idle(entry.posted.pruner)
                /\ entry.posted.pruner = pruner0
          /\ entry.prev = Finished("Ok") =>
                /\ ret' = Started
                /\ tasks' = Append(tasks, NewTask(pruner0))
                /\ chans' = Append(chans, oneshot_channel)
                /\ pruner_state' = Running(Len(tasks'))]_vars

\* The third run was started right after the second finished with success.
C6_Witness ==
    /\ Returned /\ ret = Started /\ entry.prev = Finished("Ok")
    /\ Len(tasks) >= 3 /\ tasks[Len(tasks)] = NewTask(pruner0)

\* C7: once (pruner, failure) is posted, the next poll returns Finished with
\* that failure, the state returns to Idle holding the Pruner, and the poll
\* after that starts a fresh run as after a success.
C7_FailureDoesNotStrand ==
    [][Returns =>
          /\ (entry.posted # NoValue /\ entry.posted.result = "PrunerError") =>
                /\ ret' = Finished("PrunerError")
                /\ pruner_state' = Idle(entry.posted.pruner)
                /\ entry.posted.pruner = pruner0
          /\ entry.prev = Finished("PrunerError") =>
                /\ ret' = Started
                /\ tasks' = Append(tasks, NewTask(pruner0))
                /\ chans' = Append(chans, oneshot_channel)
                /\ pruner_state' = Running(Len(tasks'))]_vars

\* A run was started right after the previous one finished with a failure.
C7_Witness ==
    /\ Returned /\ ret = Started /\ entry.prev = Finished("PrunerError")
    /\ Len(tasks) >= 2 /\ tasks[Len(tasks)] = NewTask(pruner0)

\* C8: a poll entered while Idle returns Started, submits exactly one task and
\* leaves the state Running (is_pruner_active() true); it never reaches the
\* completion check, so it returns neither pending nor Finished.
C8_IdlePollStarts ==
    entry.idle =>
        /\ pc \notin {"poll_pruner", "check", "panicked"}
        /\ Returned => /\ ret = Started
                       /\ Len(tasks) = entry.ntasks + 1
                       /\ Len(chans) = Len(tasks)
                       /\ pruner_state = Running(Len(tasks))
                       /\ is_pruner_active

\* The first poll after construction has returned and the task has not moved yet.
C8_Witness ==
    /\ Returned /\ entry = NoSnapshot /\ ret = Started
    /\ tasks = <<NewTask(pruner0)>>

\* C9: before the first poll the controller is Idle holding the supplied
\* Pruner, is_pruner_idle() is true, is_pruner_active() is false, and nothing
\* has been submitted to the spawner.
C9_FreshControllerIdle ==
    (pc = "ready" /\ ret = NoRet) =>
        /\ is_pruner_idle
        /\ ~is_pruner_active
        /\ pruner_state = Idle(pruner0)
        /\ tasks = <<>>
        /\ chans = <<>>
        /\ observed.query # None =>
              observed.value = (observed.query = "is_pruner_idle")

\* The fresh controller has been asked is_pruner_active and answered false.
C9_Witness ==
    /\ pc = "ready" /\ ret = NoRet
    /\ observed = [query |-> "is_pruner_active", value |-> FALSE]

\* C10: poll never blocks: whatever the channel holds, a call that has been
\* entered returns (the loop of poll terminates).
C10_PollReturns == (pc # "ready") ~> (pc = "ready")

\* A call that found the channel empty and open went once through the loop and
\* returned pending.
C10_Witness ==
    /\ Returned /\ ret = Pending /\ iters = 1
    /\ ~entry.idle /\ entry.posted = NoValue /\ ~entry.closed

\* C11: a pending tick changes nothing: a poll entered while Running whose
\* channel is still empty and open when it returns reports pending, keeps the
\* state Running with the same receiver, submits no task and leaves
\* is_pruner_active() true; the completion check itself only registers the waker.
C11_PendingTickChangesNothing ==
    [][/\ (Returns /\ ~entry.idle /\ ~chans[pruner_state.rx].complete) =>
             /\ ret' = Pending
             /\ pruner_state' = pruner_state
             /\ tasks' = tasks
             /\ chans' = chans
             /\ is_pruner_active'
       /\ (pc = "poll_pruner" /\ pc' = "check") =>
             /\ pruner_state' = pruner_state
             /\ tasks' = tasks
             /\ chans' = [chans EXCEPT ![pruner_state.rx].rx_waker = TRUE]
       /\ (pc = "check" /\ pc' # "check") => (pc' = "ready" /\ ret' = Pending)
       /\ (Returns /\ ret' = Pending) =>
             /\ pruner_state' = Running(entry.ntasks)
             /\ pruner_state' = pruner_state
             /\ Len(tasks') = entry.ntasks]_vars

\* Two pending ticks in a row while the worker is still running the pruner.
C11_Witness ==
    /\ Returned /\ ret = Pending /\ entry.prev = Pending
    /\ ~chans[pruner_state.rx].complete
    /\ tasks[pruner_state.rx].pc = "run"

\* C12: is_pruner_idle() is true iff the variant is Idle, is_pruner_active()
\* is its negation, and a query changes neither the controller state nor the
\* channels nor the submitted tasks.
C12_QueriesArePure ==
    /\ [](/\ is_pruner_idle <=> pruner_state.tag = "Idle"
          /\ is_pruner_active <=> pruner_state.tag = "Running"
          /\ is_pruner_active <=> ~is_pruner_idle)
    /\ [][observed' # observed =>
             /\ observed'.query = "is_pruner_idle" =>
                   observed'.value = (pruner_state.tag = "Idle")
             /\ observed'.query = "is_pruner_active" =>
                   observed'.value = (pruner_state.tag = "Running")
             /\ UNCHANGED <<pruner_state, chans, tasks, pc, ret>>]_vars

\* Both answers have been observed: active during a run, idle after it finished.
C12_Witness ==
    /\ observed = [query |-> "is_pruner_idle", value |-> TRUE]
    /\ Returned /\ ret = Finished("PrunerError")

\* C13: TaskDropped is returned only for a task that ended without posting.
\* When the worker has posted (pruner, result) and ended, sender gone, before
\* the controller polls, the poll returns Finished with the posted result and
\* takes the Pruner back; it does not return TaskDropped.
C13_DroppedOnlyWithoutValue ==
    [][/\ \A i \in 1..Len(tasks) :
             (tasks[i].pc = "send" /\ tasks'[i].pc = "done") =>
                 /\ chans'[i].value = PrunerWithResult(tasks[i].pruner, tasks[i].result)
                 /\ ~chans'[i].tx
       /\ (Returns /\ ret' = TaskDropped) =>
             /\ tasks[pruner_state.rx].pc = "panicked"
             /\ chans[pruner_state.rx].value = NoValue
       /\ (Returns /\ is_pruner_active /\ pc = "poll_pruner"
                   /\ tasks[pruner_state.rx].pc = "done") =>
             /\ ~chans[pruner_state.rx].tx
             /\ chans[pruner_state.rx].value # NoValue
             /\ ret' = Finished(chans[pruner_state.rx].value.result)
             /\ pruner_state' = Idle(chans[pruner_state.rx].value.pruner)
             /\ pruner_state' = Idle(pruner0)]_vars

\* The worker posted a failure and ended before the poll was entered; the poll
\* returned it as Finished.
C13_Witness ==
    /\ Returned /\ ret = Finished("PrunerError")
    /\ entry.posted = PrunerWithResult(pruner0, "PrunerError")
    /\ tasks[entry.ntasks].pc = "done"
    /\ ~chans[entry.ntasks].tx
    /\ pruner_state = Idle(pruner0)

\* C15: an Idle state always has a Pruner in its slot, so the re-check of
\* idleness after a pending completion check never finds Idle and the loop of
\* poll never runs a second iteration.
C15_IdleSlotNeverEmpty ==
    /\ is_pruner_idle => pruner_state.pruner \in Pruners
    /\ pc \in {"poll_pruner", "check"} => is_pruner_active
    /\ iters <= 1

\* The re-check of line 96 is reached, after one iteration, with the state
\* Running, during a run that reused the Pruner.
C15_Witness ==
    pc = "check" /\ iters = 1 /\ is_pruner_active /\ entry.ntasks >= 2

\* C16: a poll that starts a run returns Started without checking the channel
\* in that call; Finished or TaskDropped for a run is returned only by a later
\* call than the one that returned its Started, however fast the worker is.
C16_StartedBeforeTerminalEvent ==
    /\ entry.idle => iters = 0
    /\ (Returned /\ ret = Started) =>
          /\ entry.idle
          /\ ~chans[Len(chans)].rx_waker
          /\ chans[Len(chans)].rx_inner
    /\ (Returned /\ ret.kind \in {"Finished", "TaskDropped"}) =>
          /\ ~entry.idle
          /\ entry.ntasks = Len(tasks)
          /\ iters = 1

\* The worker posted its result right after the submission, before any further
\* call: the call that started the run has returned Started all the same.
C16_Witness ==
    /\ Returned /\ ret = Started
    /\ chans[Len(chans)].value # NoValue
    /\ tasks[Len(tasks)].pc = "done"

\* C14: the events poll returns, pending aside, alternate Started, Finished,
\* Started, ... from Started on, possibly ending in Started followed by
\* TaskDropped only; Started comes with exactly the step Idle -> Running,
\* Finished with exactly the step Running -> Idle, and there is at most one
\* more Started than Finished.
C14_EventsFollowStateMachine ==
    /\ [](/\ events.finished <= events.started
          /\ events.started <= events.finished + 1
          /\ events.started = Len(tasks)
          /\ (events.started = events.finished) <=> is_pruner_idle)
    /\ [][/\ (Returns /\ ret'.kind # "Pending") =>
                /\ events'.last = ret'
                /\ \/ events.last = NoRet /\ ret' = Started
                   \/ events.last.kind = "Finished" /\ ret' = Started
                   \/ events.last = Started /\ ret'.kind \in {"Finished", "TaskDropped"}
                   \/ events.last = TaskDropped /\ ret' = TaskDropped
                /\ ret' = Started => is_pruner_idle /\ is_pruner_active'
                /\ ret'.kind = "Finished" => is_pruner_active /\ is_pruner_idle'
                /\ ret' = TaskDropped => pruner_state' = pruner_state
          /\ (Returns /\ ret'.kind = "Pending") => events' = events
          /\ pruner_state' # pruner_state =>
                /\ Returns
                /\ ret'.kind = IF is_pruner_idle THEN "Started" ELSE "Finished"
                /\ is_pruner_idle' = ~is_pruner_idle]_vars

\* Started, Finished, Started, Finished, Started, TaskDropped, TaskDropped.
C14_Witness ==
    /\ Returned /\ ret = TaskDropped /\ entry.prev = TaskDropped
    /\ events = [last |-> TaskDropped, started |-> 3, finished |-> 2]

\* C17: if the worker eventually posts or terminates and the foreground keeps
\* calling poll, every Started is followed by the Finished or TaskDropped of
\* its run, and once a result is posted the controller returns to Idle.
C17_StartedRunTerminates ==
    \A n \in 1..MaxRuns :
        /\ (ret = Started /\ events.started = n)
              ~> (/\ ret.kind \in {"Finished", "TaskDropped"}
                  /\ events.started = n
                  /\ events.finished \in {n - 1, n})
        /\ (Len(chans) >= n /\ chans[n].value # NoValue)
              ~> (is_pruner_idle /\ events.finished = n
                  /\ pruner_state = Idle(pruner0))

\* The last run allowed by the bound was started and came to its Finished.
C17_Witness ==
    /\ Returned /\ ret.kind = "Finished"
    /\ events.started = MaxRuns /\ events.finished = MaxRuns
    /\ is_pruner_idle

\* C18: no lost wakeup.  poll returns pending only when the state is Running
\* and the channel was polled in that call with the caller's waker registered;
\* if the worker posts or terminates around that poll, either the call returns
\* the event or the waker is woken; so a caller that calls again only when
\* woken still gets the terminal event of every run.
C18_NoLostWakeup ==
    /\ []((Returned /\ ret = Pending) =>
             /\ is_pruner_active
             /\ iters = 1
             /\ chans[pruner_state.rx].rx_waker
             /\ chans[pruner_state.rx].complete => notified)
    /\ \A n \in 1..MaxRuns :
          (ret = Started /\ events.started = n)
             ~> (/\ ret.kind \in {"Finished", "TaskDropped"}
                 /\ events.started = n)

\* After a pending tick the worker posted, the waker was woken, and the call
\* made on that wakeup returned Finished.
C18_Witness ==
    /\ Returned /\ ret.kind = "Finished" /\ entry.prev = Pending
    /\ entry.posted # NoValue
    /\ chans[entry.ntasks].rx_waker

====
